---- MODULE Spec2Model ----
(***************************************************************************)
(* A model of CodeSampleGen.py: main() initialises the generation backend  *)
(* and the tree-sitter parser, walks a repository, asks the backend for    *)
(* question/answer text about every function it finds, parses that text    *)
(* line by line into records and writes the records to one file.           *)
(*                                                                         *)
(* Text is modelled at two grains.  File contents are sequences of code    *)
(* points (one-character strings), so that byte offsets and string offsets *)
(* can differ.  Backend responses are sequences of tokens: the two marker  *)
(* texts, a blank, a newline and words that contain none of these.         *)
(***************************************************************************)
EXTENDS Integers, Sequences, FiniteSets, TLC

VARIABLES
    pc,          \* position in main / generate_qa_pairs
    env,         \* what exists on disk, which files cannot be read, and
                 \* whether the module namespace binds PY_LANGUAGE
    repo,        \* the files rglob enumerates, in enumeration order
    opened,      \* paths extract_code has opened for reading
    code_files,  \* list returned by extract_code
    fi,          \* index of the file the outer loop is at
    captures,    \* captures of the query on the current file
    ui,          \* index of the capture the inner loop is at
    unit,        \* locals func_name, func_code of the current capture
    response,    \* text returned by the backend for the current unit
    lines,       \* response.split('\n')
    li,          \* index of the line the parse loop is at
    current_q,   \* pending question of the parse loop
    qa_pairs,    \* accumulated records
    calls,       \* prompts sent to the backend, in order
    log,         \* messages printed, in order
    output,      \* content of qa_pairs.json, <<>> while not written
    err          \* exception that left main, NoErr while none

vars == <<pc, env, repo, opened, code_files, fi, captures, ui, unit, response,
          lines, li, current_q, qa_pairs, calls, log, output, err>>

----------------------------------------------------------------------------
(* Bounds *)

MaxLines == 4      \* lines of a backend response in SpecParser
MaxFiles == 3      \* files enumerated in the repository
MaxPairs == 4      \* question/answer line pairs of an alternating response

----------------------------------------------------------------------------
(* Text helpers *)

Min(a, b) == IF a < b THEN a ELSE b

\* bytes(s, "utf-8"): one byte per ASCII code point, two for U+00E9
Utf8Char(c) == IF c = "U+00E9" THEN <<"0xC3", "0xA9">> ELSE <<c>>

RECURSIVE Utf8Encode(_)
Utf8Encode(s) == IF s = <<>> THEN <<>> ELSE Utf8Char(Head(s)) \o Utf8Encode(Tail(s))

\* b.decode("utf-8") for byte strings produced by Utf8Encode
RECURSIVE Utf8Decode(_)
Utf8Decode(b) ==
    IF b = <<>> THEN <<>>
    ELSE IF Head(b) = "0xC3" /\ Len(b) >= 2 /\ b[2] = "0xA9"
         THEN <<"U+00E9">> \o Utf8Decode(SubSeq(b, 3, Len(b)))
         ELSE <<Head(b)>> \o Utf8Decode(Tail(b))

\* s[a:b] of Python for 0 <= a, 0 <= b: indices past the end are clamped
PySlice(s, a, b) == SubSeq(s, a + 1, Min(b, Len(s)))

----------------------------------------------------------------------------
(* The response parser, lines 114-130 *)

QMARK == "Question:"
AMARK == "Answer:"
NL == "\n"
SP == " "

\* current_q = None
None == <<"<None>">>

\* str.split('\n')
RECURSIVE SplitAcc(_, _)
SplitAcc(s, cur) ==
    IF s = <<>> THEN <<cur>>
    ELSE IF Head(s) = NL THEN <<cur>> \o SplitAcc(Tail(s), <<>>)
         ELSE SplitAcc(Tail(s), Append(cur, Head(s)))

Split(s) == SplitAcc(s, <<>>)

\* line.startswith(marker)
StartsWith(line, marker) == Len(line) >= 1 /\ line[1] = marker

\* line.replace(marker, ""): every occurrence is removed
Replace(line, marker) == SelectSeq(line, LAMBDA t : t # marker)

\* str.strip()
RECURSIVE LStrip(_)
LStrip(s) == IF s # <<>> /\ Head(s) \in {SP, NL} THEN LStrip(Tail(s)) ELSE s

RECURSIVE RStrip(_)
RStrip(s) ==
    IF s # <<>> /\ s[Len(s)] \in {SP, NL} THEN RStrip(SubSeq(s, 1, Len(s) - 1)) ELSE s

Strip(s) == RStrip(LStrip(s))

\* truth value of current_q in "if current_q:"
Truthy(q) == q # None /\ q # <<>>

\* the record appended at lines 122-129
Record(q, a, u, file) ==
    [question |-> q, answer |-> a, code_snippet |-> u.func_code,
     reasoning |-> [func_name |-> u.func_name, path |-> file.path],
     file |-> file.path, repo |-> file.repo]

\* ParseLine without the test of the pending question at line 120
ParseLineUnguarded(line, q, pairs, u, file) ==
    IF StartsWith(line, QMARK)
    THEN [current_q |-> Strip(Replace(line, QMARK)), qa_pairs |-> pairs]
    ELSE IF StartsWith(line, AMARK)
         THEN [current_q |-> None,
               qa_pairs |-> Append(pairs, Record(q, Strip(Replace(line, AMARK)), u, file))]
         ELSE [current_q |-> q, qa_pairs |-> pairs]

\* ParseLine emitting no record once the list holds three
ParseLineMax3(line, q, pairs, u, file) ==
    IF StartsWith(line, QMARK)
    THEN [current_q |-> Strip(Replace(line, QMARK)), qa_pairs |-> pairs]
    ELSE IF StartsWith(line, AMARK) /\ Truthy(q)
         THEN [current_q |-> None,
               qa_pairs |-> IF Len(pairs) < 3
                            THEN Append(pairs, Record(q, Strip(Replace(line, AMARK)), u, file))
                            ELSE pairs]
         ELSE [current_q |-> q, qa_pairs |-> pairs]

\* ParseLine emitting no record for a question the list already holds
ParseLineDedup(line, q, pairs, u, file) ==
    IF StartsWith(line, QMARK)
    THEN [current_q |-> Strip(Replace(line, QMARK)), qa_pairs |-> pairs]
    ELSE IF StartsWith(line, AMARK) /\ Truthy(q)
         THEN [current_q |-> None,
               qa_pairs |-> IF \E i \in 1..Len(pairs) : pairs[i].question = q
                            THEN pairs
                            ELSE Append(pairs, Record(q, Strip(Replace(line, AMARK)), u, file))]
         ELSE [current_q |-> q, qa_pairs |-> pairs]

\* ParseLine adding the text of a line without marker to the pending
\* question
ParseLineAccumulate(line, q, pairs, u, file) ==
    IF StartsWith(line, QMARK)
    THEN [current_q |-> Strip(Replace(line, QMARK)), qa_pairs |-> pairs]
    ELSE IF StartsWith(line, AMARK) /\ Truthy(q)
         THEN [current_q |-> None,
               qa_pairs |-> Append(pairs, Record(q, Strip(Replace(line, AMARK)), u, file))]
         ELSE [current_q |-> IF Truthy(q) THEN q \o <<SP>> \o line ELSE q,
               qa_pairs |-> pairs]

\* ParseLine putting the new record in front of the list
ParseLinePrepend(line, q, pairs, u, file) ==
    IF StartsWith(line, QMARK)
    THEN [current_q |-> Strip(Replace(line, QMARK)), qa_pairs |-> pairs]
    ELSE IF StartsWith(line, AMARK) /\ Truthy(q)
         THEN [current_q |-> None,
               qa_pairs |-> <<Record(q, Strip(Replace(line, AMARK)), u, file)>> \o pairs]
         ELSE [current_q |-> q, qa_pairs |-> pairs]

\* one iteration of "for line in lines", lines 116-130: the new pending
\* question and the new record list
ParseLine(line, q, pairs, u, file) ==
    IF StartsWith(line, QMARK)
    THEN [current_q |-> Strip(Replace(line, QMARK)), qa_pairs |-> pairs]
    ELSE IF StartsWith(line, AMARK) /\ Truthy(q)
         THEN [current_q |-> None,
               qa_pairs |-> Append(pairs, Record(q, Strip(Replace(line, AMARK)), u, file))]
         ELSE [current_q |-> q, qa_pairs |-> pairs]

----------------------------------------------------------------------------
(* The syntax tree, lines 98-107.  tree-sitter is modelled on files whose  *)
(* functions are one-line definitions "def name(...): ..." at the start of *)
(* a line: such a definition is one function_definition node that ends at  *)
(* the end of its line, and its name field is the identifier after "def ". *)

IsDefAt(b, p) ==
    /\ p + 3 <= Len(b)
    /\ b[p] = "d" /\ b[p + 1] = "e" /\ b[p + 2] = "f" /\ b[p + 3] = " "
    /\ (p = 1 \/ b[p - 1] = NL)

\* first index >= p holding c, or Len(b) + 1
RECURSIVE IndexFrom(_, _, _)
IndexFrom(b, p, c) ==
    IF p > Len(b) THEN Len(b) + 1
    ELSE IF b[p] = c THEN p ELSE IndexFrom(b, p + 1, c)

\* the capture of @func_name for the definition at p: the identifier node
\* (0-based byte range, end exclusive, and its bytes) with its parent, the
\* function_definition node
CaptureAt(b, p) ==
    [start_byte |-> p + 3,
     end_byte   |-> IndexFrom(b, p + 4, "(") - 1,
     text       |-> SubSeq(b, p + 4, IndexFrom(b, p + 4, "(") - 1),
     parent     |-> [start_byte |-> p - 1, end_byte |-> IndexFrom(b, p, NL) - 1]]

\* query.captures(tree.root_node): the captures in document order
RECURSIVE CapturesFrom(_, _)
CapturesFrom(b, p) ==
    IF p > Len(b) THEN <<>>
    ELSE IF IsDefAt(b, p) THEN <<CaptureAt(b, p)>> \o CapturesFrom(b, p + 1)
         ELSE CapturesFrom(b, p + 1)

Captures(content) == CapturesFrom(Utf8Encode(content), 1)

\* lines 106-107: func_name and func_code of a capture
FuncName(node) == Utf8Decode(node.text)

FuncCode(content, node) == PySlice(content, node.start_byte, node.end_byte)

\* the text of the function definition a capture belongs to: the byte slice
\* [start_byte, end_byte) of the file's bytes, decoded
DefinitionText(content, node) ==
    Utf8Decode(PySlice(Utf8Encode(content), node.parent.start_byte, node.parent.end_byte))

----------------------------------------------------------------------------
(* Inputs: repository files and backend behaviour *)

\* def add(a, b): return a + b
SrcAdd ==
    <<"d", "e", "f", " ", "a", "d", "d", "(", "a", ",", " ", "b", ")", ":", " ",
      "r", "e", "t", "u", "r", "n", " ", "a", " ", "+", " ", "b">>

\* a comment with a two-byte code point, then two functions
SrcTwo ==
    <<"#", "U+00E9", NL,
      "d", "e", "f", " ", "f", "(", ")", ":", "0", NL,
      "d", "e", "f", " ", "g", "(", ")", ":", "1">>

\* one function with a two-byte code point in its body
SrcIn == <<"d", "e", "f", " ", "h", "(", ")", ":", "'", "U+00E9", "'">>

\* no function
SrcNone == <<"x", "=", "1">>

FilePool ==
    { [path |-> "add.py", content |-> SrcAdd],
      [path |-> "two.py", content |-> SrcTwo],
      [path |-> "in.py", content |-> SrcIn],
      [path |-> "none.py", content |-> SrcNone] }

\* enumerations of distinct files, at most n long
RECURSIVE Enumerations(_)
Enumerations(n) ==
    IF n = 0 THEN { <<>> }
    ELSE Enumerations(n - 1) \cup
         { Append(s, f) : s \in { t \in Enumerations(n - 1) : Len(t) = n - 1 },
                          f \in FilePool }

Paths(s) == { s[i].path : i \in 1..Len(s) }

Distinct(s) == \A i, j \in 1..Len(s) : i # j => s[i].path # s[j].path

Repos == { s \in Enumerations(MaxFiles) : Distinct(s) }

\* Path(REPO_PATH).name, line 10
RepoName == "flask"

\* the dictionary appended at lines 72-76
CodeFile(f) == [path |-> f.path, content |-> f.content, repo |-> RepoName]

RECURSIVE JoinLines(_)
JoinLines(ls) ==
    IF ls = <<>> THEN <<>>
    ELSE IF Len(ls) = 1 THEN ls[1]
         ELSE ls[1] \o <<NL>> \o JoinLines(Tail(ls))

\* the response of the end-to-end scenario
RespE2E ==
    JoinLines(<< <<QMARK, SP, "What does it do?">>,
                 <<AMARK, SP, "It adds two numbers.">>,
                 <<QMARK, SP, "What are its inputs?">>,
                 <<AMARK, SP, "Two numbers.">> >>)

\* an answer without a question, one question/answer pair, and a question
\* without an answer: one record (A, X) when parsed on its own
RespOne ==
    JoinLines(<< <<AMARK, SP, "Y">>, <<QMARK, SP, "A">>, <<AMARK, SP, "X">>,
                 <<QMARK, SP, "B">> >>)

\* what a backend call does: it raises, it returns a value without
\* ["choices"][0]["text"], or it returns text
Outcomes ==
    { [kind |-> "raise", text |-> <<>>], [kind |-> "malformed", text |-> <<>>] }
    \cup { [kind |-> "text", text |-> r] : r \in {RespE2E, RespOne} }

\* lines a response is made of in SpecParser
Lines ==
    { <<QMARK, SP, "A">>, <<QMARK, SP, "B">>, <<QMARK>>, <<QMARK, SP>>,
      <<AMARK, SP, "X">>, <<AMARK, SP, "Y">>, <<AMARK>>, <<"X">> }

RECURSIVE LineSeqs(_)
LineSeqs(n) ==
    IF n = 0 THEN { <<>> }
    ELSE LineSeqs(n - 1) \cup
         { Append(s, l) : s \in { t \in LineSeqs(n - 1) : Len(t) = n - 1 }, l \in Lines }

\* lines with blanks before the marker, markers in lower case, a marker
\* after other text, a marker inside the text of a marker line, and the
\* empty line
QLOWER == "question:"
ALOWER == "answer:"

LineIndentQ == <<SP, SP, QMARK, SP, "A">>
LineIndentLowerA == <<SP, SP, ALOWER, SP, "X">>
LineLowerQ == <<QLOWER, SP, "A">>
LineTextThenQ == <<"X", SP, QMARK, SP, "A">>
LineTextThenA == <<"X", SP, AMARK, SP, "Y">>
LineQInQ == <<QMARK, SP, "what does", SP, QMARK, SP, "mean">>
LineAInA == <<AMARK, SP, "see", SP, AMARK, SP, "above">>

VariantLines ==
    { LineIndentQ, LineIndentLowerA, LineLowerQ, LineTextThenQ, LineTextThenA,
      LineQInQ, LineAInA, <<>> }

\* responses of one line or two lines, of which one at least is a variant
VariantResponses ==
    { JoinLines(<<a>>) : a \in VariantLines }
    \cup { JoinLines(<<a, b>>) : a \in VariantLines, b \in Lines \cup VariantLines }
    \cup { JoinLines(<<a, b>>) : a \in Lines, b \in VariantLines }

\* n question lines each followed by its answer line
RECURSIVE PairSeqs(_)
PairSeqs(n) ==
    IF n = 0 THEN { <<>> }
    ELSE { s \o p : s \in PairSeqs(n - 1),
                    p \in { << <<QMARK, SP, "A">>, <<AMARK, SP, "X">> >>,
                            << <<QMARK, SP, "B">>, <<AMARK, SP, "Y">> >> } }

AlternatingResponses == { JoinLines(ls) : ls \in UNION { PairSeqs(n) : n \in 0..MaxPairs } }

Responses ==
    { JoinLines(ls) : ls \in LineSeqs(MaxLines) }
    \cup VariantResponses
    \cup AlternatingResponses

----------------------------------------------------------------------------
(* State *)

NoErr == [kind |-> "none", at |-> "none"]

NoUnit == [func_name |-> <<>>, func_code |-> <<>>]

Msg(text, path, func) == [text |-> text, path |-> path, func |-> func]

\* lines 171-173: main prints the error and re-raises it
Raise(kind, at) ==
    /\ pc' = "crashed"
    /\ err' = [kind |-> kind, at |-> at]

\* lines 108-111
Prompt(func_code) == [instruction |-> "Generate 3 questions and answers", code |-> func_code]

\* one call of the backend, line 113: the prompt, the unit it was built for
\* and what the backend did
Call(u, file, o) ==
    [prompt |-> Prompt(u.func_code), path |-> file.path, func |-> u.func_name,
     outcome |-> o]

Blank ==
    /\ opened = <<>> /\ captures = <<>> /\ ui = 1 /\ unit = NoUnit
    /\ response = <<>> /\ lines = <<>> /\ li = 1 /\ current_q = None
    /\ qa_pairs = <<>> /\ calls = <<>> /\ log = <<>> /\ output = <<>> /\ err = NoErr

\* main() is about to run.  The module namespace is the one the source
\* defines: the name PY_LANGUAGE is bound only as a local of initialize_parser
Init ==
    /\ pc = "init_model"
    /\ repo \in Repos
    /\ env \in [modelExists : BOOLEAN, repoExists : BOOLEAN, pyLanguage : {FALSE},
                 unreadable : SUBSET Paths(repo)]
    /\ (~env.repoExists => repo = <<>>)
    /\ code_files = <<>> /\ fi = 1
    /\ Blank

----------------------------------------------------------------------------
(* main, lines 154-173 *)

\* initialize_model without the test of line 28
ModelFileNeverMissing(e) == FALSE

\* line 28: not os.path.exists(model_path)
ModelFileMissing(e) == ~e.modelExists

\* extract_code refusing a root without matching files as well
RepoMissingOrEmpty(e) == ~e.repoExists \/ repo = <<>>

\* line 65: not repo_path.exists()
RepoMissing(e) == ~e.repoExists

\* lines 156-160 and 15-30.  The Llama constructor is a library call that
\* may itself fail on a file that exists.
initialize_model ==
    /\ pc = "init_model"
    /\ \E loaded \in BOOLEAN :
         IF ModelFileMissing(env)
         THEN /\ Raise("FileNotFoundError", "initialize_model")
              /\ log' = log \o <<Msg("Starting QA pair generation...", "", <<>>),
                                 Msg("Error in main execution", "", <<>>)>>
         ELSE IF ~loaded
         THEN /\ Raise("LibraryError", "initialize_model")
              /\ log' = log \o <<Msg("Starting QA pair generation...", "", <<>>),
                                 Msg("Error in main execution", "", <<>>)>>
         ELSE /\ pc' = "init_parser"
              /\ log' = Append(log, Msg("Starting QA pair generation...", "", <<>>))
              /\ err' = err
    /\ UNCHANGED <<env, repo, opened, code_files, fi, captures, ui, unit, response,
                   lines, li, current_q, qa_pairs, calls, output>>

\* lines 161 and 32-47: any failure of the tree-sitter calls becomes a
\* RuntimeError
initialize_parser ==
    /\ pc = "init_parser"
    /\ \E configured \in BOOLEAN :
         IF ~configured
         THEN /\ Raise("RuntimeError", "initialize_parser")
              /\ log' = Append(log, Msg("Error in main execution", "", <<>>))
         ELSE /\ pc' = "extract"
              /\ UNCHANGED <<log, err>>
    /\ UNCHANGED <<env, repo, opened, code_files, fi, captures, ui, unit, response,
                   lines, li, current_q, qa_pairs, calls, output>>

\* the files of s whose index is not in bad, in order
RECURSIVE Readable(_, _, _)
Readable(s, bad, i) ==
    IF i > Len(s) THEN <<>>
    ELSE IF i \in bad THEN Readable(s, bad, i + 1)
         ELSE <<CodeFile(s[i])>> \o Readable(s, bad, i + 1)

\* the messages of lines 77 and 79
RECURSIVE ExtractLog(_, _, _)
ExtractLog(s, bad, i) ==
    IF i > Len(s) THEN <<>>
    ELSE <<Msg(IF i \in bad THEN "Failed to read file" ELSE "Extracted file",
               s[i].path, <<>>)>> \o ExtractLog(s, bad, i + 1)

\* lines 164 and 49-81: bad are the files whose open or read raises
extract_code ==
    /\ pc = "extract"
    /\ IF RepoMissing(env)
       THEN /\ Raise("ValueError", "extract_code")
            /\ log' = Append(log, Msg("Error in main execution", "", <<>>))
            /\ UNCHANGED <<opened, code_files>>
       ELSE LET bad == { i \in 1..Len(repo) : repo[i].path \in env.unreadable }
            IN
              /\ opened' = [i \in 1..Len(repo) |-> repo[i].path]
              /\ code_files' = Readable(repo, bad, 1)
              /\ log' = log \o ExtractLog(repo, bad, 1)
              /\ pc' = "file"
              /\ err' = err
    /\ fi' = 1
    /\ UNCHANGED <<env, repo, captures, ui, unit, response, lines, li, current_q,
                   qa_pairs, calls, output>>

----------------------------------------------------------------------------
(* generate_qa_pairs, lines 83-136 *)

\* line 99 evaluates the global name PY_LANGUAGE: a NameError unless the
\* module namespace binds it
QueryBuilt(e) == e.pyLanguage

\* the per-file except clause leaving the loop over the files
AfterFileErrorBreak(i) == Len(code_files) + 1

\* lines 133-134: the except clause of the per-file try ends the iteration
\* and the for loop goes on with the next file
AfterFileError(i) == i + 1

\* the per-unit except clause leaving the loop over the captures
AfterUnitErrorBreak(i) == Len(captures) + 1

\* lines 131-132: the except clause of the per-unit try ends the iteration
\* and the for loop goes on with the next capture
AfterUnitError(i) == i + 1

\* lines 96-103: one iteration of the outer loop up to the captures.
\* treeOk: parser.parse, the query and query.captures raise nothing.
generate_file ==
    /\ pc = "file"
    /\ fi <= Len(code_files)
    /\ \E treeOk \in BOOLEAN :
         IF ~treeOk \/ ~QueryBuilt(env)
         THEN /\ log' = Append(log, Msg("Error processing file", code_files[fi].path, <<>>))
              /\ fi' = AfterFileError(fi)
              /\ UNCHANGED <<pc, captures, ui>>
         ELSE /\ captures' = Captures(code_files[fi].content)
              /\ ui' = 1
              /\ pc' = "unit"
              /\ UNCHANGED <<log, fi>>
    /\ UNCHANGED <<env, repo, opened, code_files, unit, response, lines, li,
                   current_q, qa_pairs, calls, output, err>>

\* lines 105-113: one capture up to the backend's answer.  Lines 105-111
\* are inside the per-file try only: nodeOk says that unpacking the capture
\* and reading the node raise nothing.  The call of line 113 and what
\* follows it are inside the per-unit try.
generate_unit ==
    /\ pc = "unit"
    /\ ui <= Len(captures)
    /\ LET u == [func_name |-> FuncName(captures[ui]),
                 func_code |-> FuncCode(code_files[fi].content, captures[ui])]
       IN \E nodeOk \in BOOLEAN, o \in Outcomes :
            IF ~nodeOk
            THEN /\ log' = Append(log, Msg("Error processing file",
                                           code_files[fi].path, <<>>))
                 /\ fi' = AfterFileError(fi)
                 /\ pc' = "file"
                 /\ UNCHANGED <<unit, calls, ui, response>>
            ELSE /\ unit' = u
                 /\ calls' = Append(calls, Call(u, code_files[fi], o))
                 /\ fi' = fi
                 /\ IF o.kind # "text"
                    THEN /\ log' = Append(log, Msg("Failed to generate QA",
                                                   code_files[fi].path, u.func_name))
                         /\ ui' = AfterUnitError(ui)
                         /\ UNCHANGED <<pc, response>>
                    ELSE /\ response' = o.text
                         /\ pc' = "split"
                         /\ UNCHANGED <<log, ui>>
    /\ UNCHANGED <<env, repo, opened, code_files, captures, lines, li,
                   current_q, qa_pairs, output, err>>

\* split_response without the assignment current_q = None
split_response_keep ==
    /\ pc = "split"
    /\ lines' = Split(response)
    /\ li' = 1
    /\ pc' = "line"
    /\ UNCHANGED <<env, repo, opened, code_files, fi, captures, ui, unit, response,
                   current_q, qa_pairs, calls, log, output, err>>

\* lines 114-115
split_response ==
    /\ pc = "split"
    /\ lines' = Split(response)
    /\ current_q' = None
    /\ li' = 1
    /\ pc' = "line"
    /\ UNCHANGED <<env, repo, opened, code_files, fi, captures, ui, unit, response,
                   qa_pairs, calls, log, output, err>>

\* lines 116-130: one iteration of the loop over the lines
parse_line ==
    /\ pc = "line"
    /\ li <= Len(lines)
    /\ LET r == ParseLine(lines[li], current_q, qa_pairs, unit, code_files[fi])
       IN /\ current_q' = r.current_q
          /\ qa_pairs' = r.qa_pairs
    /\ li' = li + 1
    /\ UNCHANGED <<pc, env, repo, opened, code_files, fi, captures, ui, unit,
                   response, lines, calls, log, output, err>>

\* a pending question flushed with an empty answer at the end of the lines
AtEndOfLinesFlush(q, pairs) ==
    IF Truthy(q) THEN Append(pairs, Record(q, <<>>, unit, code_files[fi])) ELSE pairs

\* the record list when the loop over the lines is exhausted: nothing
\* follows the loop inside the try, so a pending question adds nothing
AtEndOfLines(q, pairs) == pairs

\* the loop over the lines ends; the loop over the captures goes on
end_of_response ==
    /\ pc = "line"
    /\ li > Len(lines)
    /\ qa_pairs' = AtEndOfLines(current_q, qa_pairs)
    /\ ui' = ui + 1
    /\ pc' = "unit"
    /\ UNCHANGED <<env, repo, opened, code_files, fi, captures, unit, response,
                   lines, li, current_q, calls, log, output, err>>

\* the loop over the captures ends; the loop over the files goes on
end_of_captures ==
    /\ pc = "unit"
    /\ ui > Len(captures)
    /\ fi' = fi + 1
    /\ pc' = "file"
    /\ UNCHANGED <<env, repo, opened, code_files, captures, ui, unit, response,
                   lines, li, current_q, qa_pairs, calls, log, output, err>>

\* line 136
generate_return ==
    /\ pc = "file"
    /\ fi > Len(code_files)
    /\ pc' = "returned"
    /\ UNCHANGED <<env, repo, opened, code_files, fi, captures, ui, unit, response,
                   lines, li, current_q, qa_pairs, calls, log, output, err>>

----------------------------------------------------------------------------
(* save_qa_pairs, lines 138-152, and the end of main, lines 168-169 *)

\* which call fails: mkdir (line 145, before the try), the DataFrame
\* constructor (line 148), to_json (line 149), or none
SaveOutcomes == {"ok", "mkdir", "table", "write"}

\* whether a failure of that call is handled by the except of line 151
CaughtInSave(o) == o \in {"table", "write"}

save_qa_pairs ==
    /\ pc = "returned"
    /\ \E o \in SaveOutcomes :
         IF o = "ok"
         THEN /\ output' = <<qa_pairs>>
              /\ log' = log \o <<Msg("QA pairs saved", "qa_pairs.json", <<>>),
                                 Msg("QA pair generation completed.", "", <<>>)>>
              /\ pc' = "completed"
              /\ err' = err
         ELSE IF CaughtInSave(o)
         THEN /\ log' = log \o <<Msg("Failed to save QA pairs", "qa_pairs.json", <<>>),
                                 Msg("QA pair generation completed.", "", <<>>)>>
              /\ pc' = "completed"
              /\ UNCHANGED <<output, err>>
         ELSE /\ Raise("OSError", "save_qa_pairs")
              /\ log' = Append(log, Msg("Error in main execution", "", <<>>))
              /\ output' = output
    /\ UNCHANGED <<env, repo, opened, code_files, fi, captures, ui, unit, response,
                   lines, li, current_q, qa_pairs, calls>>

----------------------------------------------------------------------------
(* Specifications *)

\* main().  With PY_LANGUAGE unbound every iteration of the outer loop ends
\* in its except clause, so the steps of the inner loops are not reachable
\* from main and are not part of this next-state relation.
Next ==
    \/ initialize_model
    \/ initialize_parser
    \/ extract_code
    \/ generate_file
    \/ generate_return
    \/ save_qa_pairs

Spec == Init /\ [][Next]_vars

\* extract_code and then generate_qa_pairs, called as functions by a caller
\* whose module namespace may or may not bind PY_LANGUAGE, on a repository
\* whose files are all readable
InitGen ==
    /\ pc = "extract"
    /\ repo \in Repos
    /\ env \in [modelExists : {TRUE}, repoExists : {TRUE}, pyLanguage : BOOLEAN,
                 unreadable : {{}}]
    /\ code_files = <<>> /\ fi = 1
    /\ Blank

NextGen ==
    \/ extract_code
    \/ generate_file
    \/ generate_unit
    \/ split_response
    \/ parse_line
    \/ end_of_response
    \/ end_of_captures
    \/ generate_return

SpecGen == InitGen /\ [][NextGen]_vars

\* the parse of one response, lines 114-130, on any response of at most
\* MaxLines lines: the backend has just answered for the function of add.py
InitParser ==
    /\ pc = "split"
    /\ env = [modelExists |-> TRUE, repoExists |-> TRUE, pyLanguage |-> TRUE,
              unreadable |-> {}]
    /\ repo = << [path |-> "add.py", content |-> SrcAdd] >>
    /\ code_files = << CodeFile(repo[1]) >>
    /\ fi = 1
    /\ opened = <<>>
    /\ captures = Captures(SrcAdd)
    /\ ui = 1
    /\ unit = [func_name |-> FuncName(captures[1]),
               func_code |-> FuncCode(SrcAdd, captures[1])]
    /\ response \in Responses
    /\ lines = <<>> /\ li = 1 /\ current_q = None
    /\ qa_pairs = <<>>
    /\ calls = << Call(unit, code_files[1], [kind |-> "text", text |-> response]) >>
    /\ log = <<>> /\ output = <<>> /\ err = NoErr

NextParser ==
    \/ split_response
    \/ parse_line
    \/ end_of_response

SpecParser == InitParser /\ [][NextParser]_vars

----------------------------------------------------------------------------
(* Vocabulary of the claims about the response parser *)

QuestionLine(l) == l # <<>> /\ Head(l) = QMARK

AnswerLine(l) == l # <<>> /\ Head(l) = AMARK

MarkerLine(l) == QuestionLine(l) \/ AnswerLine(l)

\* the text of a marker line: what follows its marker, without the blanks
\* around it
BodyOf(l) == Strip(Tail(l))

\* index of the last marker line before line i, 0 if there is none
RECURSIVE LastMarker(_, _)
LastMarker(ls, i) ==
    IF i <= 1 THEN 0
    ELSE IF MarkerLine(ls[i - 1]) THEN i - 1 ELSE LastMarker(ls, i - 1)

\* the record the parser is expected to emit for question text q and answer
\* text a of the current unit
Rec(q, a) == Record(q, a, unit, code_files[fi])

\* the loop over the lines of the current response is at a line
AtLine == pc = "line" /\ li <= Len(lines)

\* the loop over the lines of the current response has ended
ParsedAll == pc = "unit" /\ lines # <<>>

LineA == <<QMARK, SP, "A">>
LineB == <<QMARK, SP, "B">>
LineX == <<AMARK, SP, "X">>
LineY == <<AMARK, SP, "Y">>

----------------------------------------------------------------------------
(* C1: pending-question overwrite.  A question-marker line makes its text  *)
(* the pending question and emits nothing; when question-marker lines      *)
(* follow one another with no answer-marker line between them, the next    *)
(* answer-marker line emits exactly one record, pairing its text with the  *)
(* text of the last of them; "Question: A\nQuestion: B\nAnswer: X" yields  *)
(* exactly the record (B, X).                                              *)

\* line j is a question-marker line that overwrote an earlier one
Overwrote(ls, j) ==
    /\ j > 1
    /\ QuestionLine(ls[j])
    /\ LastMarker(ls, j) > 0
    /\ QuestionLine(ls[LastMarker(ls, j)])

C1_PendingOverwrite ==
    /\ [][AtLine =>
            /\ QuestionLine(lines[li]) =>
                 current_q' = BodyOf(lines[li]) /\ qa_pairs' = qa_pairs
            /\ (AnswerLine(lines[li]) /\ Overwrote(lines, LastMarker(lines, li))) =>
                 qa_pairs' = Append(qa_pairs,
                                    Rec(BodyOf(lines[LastMarker(lines, li)]),
                                        BodyOf(lines[li])))]_vars
    /\ [](ParsedAll /\ lines = <<LineA, LineB, LineX>> =>
            qa_pairs = <<Rec(<<"B">>, <<"X">>)>>)

\* the example of C1 alone, which the code satisfies
C1_Example ==
    ParsedAll /\ lines = <<LineA, LineB, LineX>> => qa_pairs = <<Rec(<<"B">>, <<"X">>)>>

----------------------------------------------------------------------------
(* C2: unanswered tail.  When the end of a response is reached while a     *)
(* question is pending, nothing is emitted for it: the records are those   *)
(* that were complete when its line was read, and                          *)
(* "Question: A\nAnswer: X\nQuestion: B" yields exactly the record (A, X). *)

\* the response ends in an unanswered question: its last marker line is a
\* question-marker line
TailUnanswered(ls) ==
    /\ LastMarker(ls, Len(ls) + 1) > 0
    /\ QuestionLine(ls[LastMarker(ls, Len(ls) + 1)])

C2_UnansweredTail ==
    /\ [][(pc = "line" /\ li > Len(lines)) => qa_pairs' = qa_pairs]_vars
    /\ [][(AtLine /\ li >= LastMarker(lines, Len(lines) + 1) /\ TailUnanswered(lines))
            => qa_pairs' = qa_pairs]_vars
    /\ [](ParsedAll /\ lines = <<LineA, LineX, LineB>> =>
            qa_pairs = <<Rec(<<"A">>, <<"X">>)>>)

C2_Witness ==
    /\ ParsedAll
    /\ lines = <<LineA, LineX, LineB>>
    /\ current_q = <<"B">>
    /\ Len(qa_pairs) = 1

----------------------------------------------------------------------------
(* C3: answer without question.  An answer-marker line read while no       *)
(* question is pending emits nothing and leaves no question pending; a     *)
(* step that emits a record leaves no question pending, so a question is   *)
(* paired with at most one answer; "Answer: X\nQuestion: A\nAnswer: Y"     *)
(* yields exactly the record (A, Y).                                       *)

C3_AnswerWithoutQuestion ==
    /\ [][(AtLine /\ AnswerLine(lines[li]) /\ current_q = None) =>
            qa_pairs' = qa_pairs /\ current_q' = None]_vars
    /\ [][(AtLine /\ qa_pairs' # qa_pairs) =>
            Len(qa_pairs') = Len(qa_pairs) + 1 /\ current_q' = None]_vars
    /\ [](ParsedAll /\ lines = <<LineX, LineA, LineY>> =>
            qa_pairs = <<Rec(<<"A">>, <<"Y">>)>>)

C3_Witness ==
    /\ ParsedAll
    /\ lines = <<LineX, LineA, LineY>>
    /\ Len(qa_pairs) = 1

----------------------------------------------------------------------------
(* C4: empty bodies are still emitted.  A question-marker line followed by *)
(* an answer-marker line yields one record with the texts of the two       *)
(* lines, also when one of the texts is empty: "Question:\nAnswer: X"      *)
(* yields exactly ("", X).                                                 *)

C4_EmptyBodiesEmitted ==
    (ParsedAll /\ Len(lines) = 2 /\ QuestionLine(lines[1]) /\ AnswerLine(lines[2]))
        => qa_pairs = <<Rec(BodyOf(lines[1]), BodyOf(lines[2]))>>

\* the half of C4 the code satisfies: an empty answer to a non-empty question
C4_EmptyAnswerEmitted ==
    (ParsedAll /\ lines = <<LineA, <<AMARK>>>>) => qa_pairs = <<Rec(<<"A">>, <<>>)>>

----------------------------------------------------------------------------
(* Vocabulary of the claims about the run *)

AddFile == [path |-> "add.py", content |-> SrcAdd]

ErrorLogged(path) ==
    \E i \in 1..Len(log) : log[i].text = "Error processing file" /\ log[i].path = path

UnitErrorLogged(path, func) ==
    \E i \in 1..Len(log) :
        log[i].text = "Failed to generate QA" /\ log[i].path = path /\ log[i].func = func

\* the functions the backend was called for while the file at path was
\* processed, in call order
CalledFuncs(path) ==
    LET cs == SelectSeq(calls, LAMBDA c : c.path = path)
    IN [i \in 1..Len(cs) |-> cs[i].func]

\* the names of the functions of a file, in document order
FuncNames(content) ==
    LET cs == Captures(content)
    IN [i \in 1..Len(cs) |-> Utf8Decode(cs[i].text)]

RecordsOf(path) == { i \in 1..Len(qa_pairs) : qa_pairs[i].file = path }

RecordsOfUnit(path, func) ==
    { i \in RecordsOf(path) : qa_pairs[i].reasoning.func_name = func }

\* generate_qa_pairs has returned
Returned == pc = "returned"

----------------------------------------------------------------------------
(* C5: end-to-end scenario.  With one file whose content is the function   *)
(* "def add(a, b): return a + b" and a backend that answers with the two   *)
(* question/answer pairs of the scenario, extract_code followed by         *)
(* generate_qa_pairs returns exactly 2 records, both with that function's  *)
(* text as code_snippet.                                                   *)

E2EScenario ==
    /\ repo = <<AddFile>>
    /\ code_files = <<CodeFile(AddFile)>>
    /\ \A i \in 1..Len(calls) : calls[i].outcome = [kind |-> "text", text |-> RespE2E]

C5_EndToEnd ==
    (Returned /\ E2EScenario) =>
        /\ Len(qa_pairs) = 2
        /\ \A i \in 1..Len(qa_pairs) : qa_pairs[i].code_snippet = SrcAdd

----------------------------------------------------------------------------
(* C6: snippet fidelity.  Every accumulated record's code_snippet is the   *)
(* text of the function definition it was derived from: the byte slice     *)
(* [start_byte, end_byte) of that definition in the file's bytes, decoded. *)

C6_SnippetFidelity ==
    \A i \in 1..Len(qa_pairs) :
        \E k \in 1..Len(code_files) :
            /\ qa_pairs[i].file = code_files[k].path
            /\ \E n \in 1..Len(Captures(code_files[k].content)) :
                 LET node == Captures(code_files[k].content)[n]
                 IN /\ qa_pairs[i].reasoning.func_name = Utf8Decode(node.text)
                    /\ qa_pairs[i].code_snippet = DefinitionText(code_files[k].content, node)

----------------------------------------------------------------------------
(* C7: parse failure is non-fatal.  When the tree construction or the      *)
(* query fails for a file, generate_qa_pairs goes on with the next file    *)
(* and keeps the records accumulated so far; when it returns, every file   *)
(* of the list has either failed or had each of its functions sent to the  *)
(* backend, and a file that failed gets no record after its failure.       *)

C7_ParseFailureNonFatal ==
    /\ [][(pc = "file" /\ log' # log) =>
            /\ pc' = "file"
            /\ fi' = fi + 1
            /\ qa_pairs' = qa_pairs]_vars
    /\ [](Returned =>
            \A k \in 1..Len(code_files) :
                \/ ErrorLogged(code_files[k].path)
                \/ Len(CalledFuncs(code_files[k].path))
                     = Len(Captures(code_files[k].content)))
    /\ [][\A k \in 1..Len(code_files) :
            ErrorLogged(code_files[k].path) =>
                RecordsOf(code_files[k].path)' = RecordsOf(code_files[k].path)]_vars

\* a record from the first file, a failure of the second, a record from the
\* third
C7_Witness ==
    /\ Returned
    /\ Len(code_files) = 3
    /\ RecordsOf(code_files[1].path) # {}
    /\ ErrorLogged(code_files[2].path)
    /\ RecordsOf(code_files[3].path) # {}

----------------------------------------------------------------------------
(* C8: generation failure is per-unit.  When the backend call for a unit   *)
(* fails, the records are unchanged and the loop goes on with the next     *)
(* capture of the same file; the failed unit has no record; and when       *)
(* generate_qa_pairs returns, the backend has been called once for every   *)
(* function, in document order, of every file whose tree was built.        *)

C8_GenerationFailurePerUnit ==
    /\ [][(pc = "unit" /\ calls' # calls /\ log' # log) =>
            /\ qa_pairs' = qa_pairs
            /\ pc' = "unit"
            /\ ui' = ui + 1
            /\ fi' = fi /\ captures' = captures]_vars
    /\ [](\A i \in 1..Len(log) :
            log[i].text = "Failed to generate QA" =>
                RecordsOfUnit(log[i].path, log[i].func) = {})
    /\ [](Returned =>
            \A k \in 1..Len(code_files) :
                ~ErrorLogged(code_files[k].path) =>
                    CalledFuncs(code_files[k].path) = FuncNames(code_files[k].content))

\* the call for f of two.py failed; g of the same file and the function of
\* the next file have records
C8_Witness ==
    /\ Returned
    /\ Len(code_files) = 2
    /\ code_files[1].path = "two.py"
    /\ UnitErrorLogged("two.py", <<"f">>)
    /\ RecordsOfUnit("two.py", <<"g">>) # {}
    /\ RecordsOf(code_files[2].path) # {}

----------------------------------------------------------------------------
(* C9: persistence failure does not crash the run.  Whatever call of       *)
(* save_qa_pairs fails, no exception leaves save_qa_pairs: main does not   *)
(* end by re-raising an error raised there.                                *)

C9_SaveNeverCrashes == pc = "crashed" => err.at # "save_qa_pairs"

----------------------------------------------------------------------------
(* C10: configuration errors are fatal and come before any processing.     *)
(* While the model file or the repository root is missing, no file has     *)
(* been opened, no prompt sent and nothing written, and main never gets    *)
(* past extract_code; a missing model file ends main with a                *)
(* FileNotFoundError from initialize_model, a missing repository root with *)
(* a ValueError from extract_code, and these are the only places the two   *)
(* kinds come from before processing.                                      *)

ConfigMissing == ~env.modelExists \/ ~env.repoExists

C10_ConfigErrorsFatal ==
    /\ ConfigMissing =>
         /\ opened = <<>> /\ calls = <<>> /\ output = <<>> /\ code_files = <<>>
         /\ pc \in {"init_model", "init_parser", "extract", "crashed"}
    /\ ~env.modelExists =>
         /\ pc \in {"init_model", "crashed"}
         /\ pc = "crashed" => err = [kind |-> "FileNotFoundError", at |-> "initialize_model"]
    /\ (pc = "crashed" /\ err.at = "extract_code") =>
         ~env.repoExists /\ err.kind = "ValueError"
    /\ (pc = "crashed" /\ err.at \in {"initialize_model", "initialize_parser"}) =>
         err.kind # "ValueError"

C10_Witness ==
    /\ pc = "crashed"
    /\ env.modelExists /\ ~env.repoExists
    /\ err = [kind |-> "ValueError", at |-> "extract_code"]

----------------------------------------------------------------------------
(* C11: empty repository.  When the repository root exists and no file     *)
(* matches, extract_code returns an empty list, generate_qa_pairs returns  *)
(* an empty dataset without a call of the backend, save_qa_pairs is then   *)
(* executed, and neither extract_code nor generate_qa_pairs raises: main   *)
(* completes, with an empty file written when the save succeeds.           *)

EmptyRepo == env.repoExists /\ repo = <<>>

----------------------------------------------------------------------------
(* C12: dataset order is discovery order.  In qa_pairs the records of a    *)
(* file precede those of every file after it in code_files, within a file  *)
(* the records of a function precede those of every function after it in   *)
(* the file, within a function the answers are in the order of the answer  *)
(* lines of the backend's response; and every step keeps the records       *)
(* already in qa_pairs, in place and unchanged.                            *)

FileIndex(path) == CHOOSE k \in 1..Len(code_files) : code_files[k].path = path

UnitIndex(path, func) ==
    LET names == FuncNames(code_files[FileIndex(path)].content)
    IN CHOOSE n \in 1..Len(names) : names[n] = func

\* the texts of the answer-marker lines of a response, in order
AnswerBodies(resp) ==
    LET ans == SelectSeq(Split(resp), AnswerLine)
    IN [i \in 1..Len(ans) |-> BodyOf(ans[i])]

\* a can be obtained from b by leaving elements out
RECURSIVE IsSubseq(_, _)
IsSubseq(a, b) ==
    IF a = <<>> THEN TRUE
    ELSE IF b = <<>> THEN FALSE
    ELSE IF Head(a) = Head(b) THEN IsSubseq(Tail(a), Tail(b))
         ELSE IsSubseq(a, Tail(b))

\* the answers of the records of one function, in the order of qa_pairs
AnswersOfUnit(path, func) ==
    LET rs == SelectSeq(qa_pairs,
                        LAMBDA r : r.file = path /\ r.reasoning.func_name = func)
    IN [i \in 1..Len(rs) |-> rs[i].answer]

\* DiscoveryOrder compares neighbours: the order by file and then by
\* function is transitive, so it holds of every two records when it holds
\* of every two neighbours
DiscoveryOrder ==
    /\ \A i \in 1..(Len(qa_pairs) - 1) :
            LET a == qa_pairs[i]
                b == qa_pairs[i + 1]
            IN /\ FileIndex(a.file) <= FileIndex(b.file)
               /\ a.file = b.file =>
                    UnitIndex(a.file, a.reasoning.func_name)
                      <= UnitIndex(b.file, b.reasoning.func_name)
    /\ \A c \in { calls[i] : i \in 1..Len(calls) } :
         c.outcome.kind = "text" =>
            IsSubseq(AnswersOfUnit(c.path, c.func), AnswerBodies(c.outcome.text))

C12_DiscoveryOrder ==
    /\ [](Returned => DiscoveryOrder)
    /\ [][/\ Len(qa_pairs') >= Len(qa_pairs)
          /\ SubSeq(qa_pairs', 1, Len(qa_pairs)) = qa_pairs]_vars

\* two.py then another file: two records for f, a record for g, a record
\* for the second file
C12_Witness ==
    /\ Returned
    /\ Len(code_files) = 2
    /\ code_files[1].path = "two.py"
    /\ Cardinality(RecordsOfUnit("two.py", <<"f">>)) = 2
    /\ RecordsOfUnit("two.py", <<"g">>) # {}
    /\ RecordsOf(code_files[2].path) # {}

----------------------------------------------------------------------------
(* C13: tolerant marker recognition.  A line is a question (an answer)     *)
(* marker line when, blanks before it left out and letter case ignored, it *)
(* begins with "Question:" ("Answer:"): the response                       *)
(* "  Question: A\n  answer: X" yields exactly the record (A, X).  A line  *)
(* where the marker comes after other text is not a marker line: it        *)
(* changes neither the pending question nor the records.                   *)

\* the marker a line begins with once its leading blanks are left out,
\* letter case ignored; "none" when it begins with no marker
TolerantMarker(l) ==
    LET t == LStrip(l)
    IN IF t = <<>> THEN "none"
       ELSE IF Head(t) \in {QMARK, QLOWER} THEN "question"
       ELSE IF Head(t) \in {AMARK, ALOWER} THEN "answer"
       ELSE "none"

C13_TolerantMarkers ==
    /\ (ParsedAll /\ lines = <<LineIndentQ, LineIndentLowerA>>)
          => qa_pairs = <<Rec(<<"A">>, <<"X">>)>>
    /\ (pc = "line" /\ li > 1 /\ li <= Len(lines) + 1
          /\ TolerantMarker(lines[li - 1]) = "question")
          => current_q # None

\* the half of C13 the code satisfies: a marker after other text is not
\* seen as a marker
C13_MarkerAfterText ==
    [][(AtLine /\ lines[li] \in {LineTextThenQ, LineTextThenA})
          => (current_q' = current_q /\ qa_pairs' = qa_pairs)]_vars

----------------------------------------------------------------------------
(* C14: the markers are the contract, not the count 3.  A response of k    *)
(* question lines each followed by its answer line, k >= 0, the texts not  *)
(* empty and free of markers, yields exactly k records, the i-th pairing   *)
(* the texts of the i-th question line and the i-th answer line; and for   *)
(* any response the records emitted are never more than the question-      *)
(* marker lines nor more than the answer-marker lines read so far.         *)

\* a marker line whose text is not empty and holds no marker
WellFormed(l) ==
    /\ MarkerLine(l)
    /\ BodyOf(l) # <<>>
    /\ \A i \in 2..Len(l) : l[i] \notin {QMARK, AMARK}

\* ls is k well-formed question/answer line pairs in alternation; the
\* response of no pair is the empty text, of which split makes one empty
\* line
AlternatingPairs(ls, k) ==
    IF k = 0 THEN ls = << <<>> >>
    ELSE /\ Len(ls) = 2 * k
         /\ \A i \in 1..k :
              /\ QuestionLine(ls[2 * i - 1]) /\ WellFormed(ls[2 * i - 1])
              /\ AnswerLine(ls[2 * i]) /\ WellFormed(ls[2 * i])

\* the lines read so far that satisfy P
ReadSoFar(P(_)) ==
    Cardinality({ i \in 1..Min(li - 1, Len(lines)) : P(lines[i]) })

C14_MarkersNotCount ==
    /\ \A k \in 0..MaxPairs :
         (ParsedAll /\ AlternatingPairs(lines, k)) =>
            /\ Len(qa_pairs) = k
            /\ \A i \in 1..k :
                 qa_pairs[i] = Rec(BodyOf(lines[2 * i - 1]), BodyOf(lines[2 * i]))
    /\ (pc = "line" \/ ParsedAll) =>
         /\ Len(qa_pairs) <= ReadSoFar(QuestionLine)
         /\ Len(qa_pairs) <= ReadSoFar(AnswerLine)

\* four pairs yield four records; no pair yields none
C14_Witness ==
    /\ ParsedAll
    /\ AlternatingPairs(lines, 4)
    /\ Len(qa_pairs) = 4

C14_WitnessNone ==
    /\ ParsedAll
    /\ AlternatingPairs(lines, 0)
    /\ qa_pairs = <<>>

----------------------------------------------------------------------------
(* C15: parser determinism.  The records emitted for a response are a      *)
(* function of the response text and the code unit alone: the list         *)
(* returned by generate_qa_pairs is, call after call, the list that the    *)
(* parser run on that call's response with no record and no pending        *)
(* question emits, whatever was accumulated or left over before.           *)

\* the loop of lines 115-130 run on the lines ls from pending question q
\* and record list pairs
RECURSIVE ParseFrom(_, _, _, _, _)
ParseFrom(ls, q, pairs, u, file) ==
    IF ls = <<>> THEN pairs
    ELSE LET r == ParseLine(Head(ls), q, pairs, u, file)
         IN ParseFrom(Tail(ls), r.current_q, r.qa_pairs, u, file)

\* the records of a response parsed on its own
ParseAlone(text, u, file) == ParseFrom(Split(text), None, <<>>, u, file)

\* the records of the backend call c parsed on its own
RecordsOfCall(c) ==
    IF c.outcome.kind # "text" THEN <<>>
    ELSE ParseAlone(c.outcome.text,
                    [func_name |-> c.func, func_code |-> c.prompt.code],
                    [path |-> c.path, repo |-> RepoName])

RECURSIVE RecordsOfCalls(_)
RecordsOfCalls(cs) ==
    IF cs = <<>> THEN <<>> ELSE RecordsOfCall(Head(cs)) \o RecordsOfCalls(Tail(cs))

C15_ParserDeterminism == Returned => qa_pairs = RecordsOfCalls(calls)

\* the same response text parsed for two units, the second after records
\* and an unanswered question of the first
C15_Witness ==
    /\ Returned
    /\ \E i, j \in 1..Len(calls) :
         /\ i < j
         /\ calls[i].outcome = [kind |-> "text", text |-> RespOne]
         /\ calls[j].outcome = calls[i].outcome
         /\ Len(qa_pairs) >= 2

----------------------------------------------------------------------------
(* C16: lines without marker are ignored.  A line that is neither a        *)
(* question-marker nor an answer-marker line leaves the pending question   *)
(* and the records as they are; and the records emitted for a response are *)
(* those emitted for the response with every such line taken out, so the   *)
(* text of such a line is in no question and in no answer.                 *)

NonMarkerLine(l) == TolerantMarker(l) = "none"

WithoutNonMarkerLines(ls) == SelectSeq(ls, LAMBDA l : ~NonMarkerLine(l))

C16_NonMarkerLinesIgnored ==
    /\ [][(AtLine /\ NonMarkerLine(lines[li]))
            => (current_q' = current_q /\ qa_pairs' = qa_pairs)]_vars
    /\ [](ParsedAll =>
            qa_pairs = ParseFrom(WithoutNonMarkerLines(lines), None, <<>>,
                                 unit, code_files[fi]))

\* a line without marker between a question and its answer
C16_Witness ==
    /\ ParsedAll
    /\ lines = <<LineA, <<"X">>, LineX>>
    /\ qa_pairs = <<Rec(<<"A">>, <<"X">>)>>

----------------------------------------------------------------------------
(* C17: the body is the remainder of the line.  The text taken from a      *)
(* marker line is the line without its leading marker and without the      *)
(* blanks around what is left; a marker inside that text stays as it is:   *)
(* "Question: what does Question: mean\nAnswer: X" yields the record       *)
(* ("what does Question: mean", X).                                        *)

C17_BodyIsRemainder ==
    /\ [][(AtLine /\ QuestionLine(lines[li]))
            => current_q' = BodyOf(lines[li])]_vars
    /\ [][(AtLine /\ AnswerLine(lines[li]) /\ qa_pairs' # qa_pairs)
            => qa_pairs'[Len(qa_pairs')].answer = BodyOf(lines[li])]_vars
    /\ [](ParsedAll /\ lines = <<LineQInQ, LineX>>
            => qa_pairs = <<Rec(<<"what does", SP, QMARK, SP, "mean">>, <<"X">>)>>)

\* the half of C17 the code satisfies: the text of a marker line that holds
\* no further marker
C17_BodyWithoutMarker ==
    [][(AtLine /\ QuestionLine(lines[li]) /\ WellFormed(lines[li]))
          => current_q' = BodyOf(lines[li])]_vars

----------------------------------------------------------------------------
(* C18: errors of a unit are confined to the unit.  An error raised while  *)
(* one code unit is handled, at any step from taking it out of the query   *)
(* results to the end of the parse of its response, ends that unit only:   *)
(* the loop goes on with the next unit of the same file.                   *)

C18_UnitErrorsConfined ==
    [][(pc = "unit" /\ ui <= Len(captures) /\ log' # log)
          => (pc' = "unit" /\ fi' = fi /\ ui' = ui + 1)]_vars

----------------------------------------------------------------------------
(* C19: no pending question crosses a unit boundary.  The parse of every   *)
(* response starts with no pending question; every record's question is    *)
(* the text of a question line and its answer the text of a later answer   *)
(* line of one and the same response, and its code_snippet, file and repo  *)
(* are those of the unit that response was generated for.                  *)

\* record r comes from the backend call c: the fields of c's unit, a
\* question line of c's response and an answer line after it
FromCall(r, c) ==
    /\ c.outcome.kind = "text"
    /\ r.file = c.path
    /\ r.reasoning = [func_name |-> c.func, path |-> c.path]
    /\ r.code_snippet = c.prompt.code
    /\ r.repo = RepoName
    /\ LET ls == Split(c.outcome.text)
       IN \E i, j \in 1..Len(ls) :
            /\ i < j
            /\ QuestionLine(ls[i]) /\ BodyOf(ls[i]) = r.question
            /\ AnswerLine(ls[j]) /\ BodyOf(ls[j]) = r.answer

C19_NoQuestionAcrossUnits ==
    /\ [][pc = "split" => current_q' = None]_vars
    /\ [](Returned =>
            \A n \in 1..Len(qa_pairs) :
               \E m \in 1..Len(calls) : FromCall(qa_pairs[n], calls[m]))

\* f of two.py ends with the unanswered question B, the response for g
\* begins with the answer Y: g has the one record (A, X)
C19_Witness ==
    /\ Returned
    /\ code_files # <<>> /\ code_files[1].path = "two.py"
    /\ Len(calls) >= 2
    /\ calls[1].outcome = [kind |-> "text", text |-> RespOne]
    /\ calls[2].outcome = calls[1].outcome
    /\ calls[2].path = "two.py"
    /\ \A n \in RecordsOfUnit("two.py", <<"g">>) : qa_pairs[n].question = <<"A">>
    /\ Cardinality(RecordsOfUnit("two.py", <<"g">>)) = 1

====
